---- MODULE Spec2Model ----
(***************************************************************************)
(* A model of spair_video/core.py: VideoNetwork and SimpleVideoVAE.        *)
(*                                                                         *)
(* One model instance is constructed (Construct) and then called any       *)
(* number of times (Call).  A forward pass is modelled with the tensor     *)
(* operations evaluated as they are written: a tensor is a record of its   *)
(* shape and its contents, an exception ends the pass and leaves behind    *)
(* whatever the pass had already assigned to the instance.                 *)
(*                                                                         *)
(* Real-valued functions are replaced by integer stand-ins that keep the   *)
(* properties the code relies on: Softplus is strictly positive and        *)
(* non-decreasing, Sigmoid is a non-decreasing map onto the scale 0..100.  *)
(* The contents of one frame are abstracted to one intensity; the batch    *)
(* has one element.                                                        *)
(***************************************************************************)
EXTENDS Integers, Sequences, FiniteSets, TLC

VARIABLES
    \* configuration (Params and cfg entries), fixed for the instance
    noisy, train_kl, train_reconstruction, needs_background, bg_mode,
    fixed_weights, image_depth, dec_size, bg_decoder_kind,
    \* the instance
    phase, scheduled, modules, builds, tensors, recorded_tensors, losses,
    result, trace

cfgvars == <<noisy, train_kl, train_reconstruction, needs_background, bg_mode,
             fixed_weights, image_depth, dec_size, bg_decoder_kind>>

vars == <<noisy, train_kl, train_reconstruction, needs_background, bg_mode,
          fixed_weights, image_depth, dec_size, bg_decoder_kind,
          phase, scheduled, modules, builds, tensors, recorded_tensors, losses,
          result, trace>>

----------------------------------------------------------------------------
\* Bounds of the model.

\* number of frames of a video (obs_shape[0])
MaxFrames == 2
\* image height; the width is one more, so that the two cannot be confused
ImgSize == 2
\* latent attribute dimensionality (Param A, cfg.background_cfg.A)
A == 1

\* the clipping range of pre-activation values
ClipBound == 10

n_frames == MaxFrames
image_height == ImgSize
image_width == ImgSize + 1
obs_shape == <<n_frames, image_height, image_width, image_depth>>

Pixels == {0, 1}
Seeds == {0, 1}

Roles == {"encoder", "cell", "decoder", "background_encoder", "background_decoder"}
RecognizedModes == {"colour", "learn_solid", "learn", "data"}
Modes == RecognizedModes \cup {"checkerboard"}
BgDecoderKinds == {"solid", "map_exact", "map_over"}

----------------------------------------------------------------------------
\* Maps, sequences and tensors.

EmptyMap == [k \in {} |-> 0]
Update(f, k, v) == (k :> v) @@ f
Has(f, k) == k \in DOMAIN f

RECURSIVE Prod(_)
Prod(s) == IF s = <<>> THEN 1 ELSE Head(s) * Prod(Tail(s))

RECURSIVE SumSeq(_)
SumSeq(s) == IF s = <<>> THEN 0 ELSE Head(s) + SumSeq(Tail(s))

RECURSIVE SumAll(_)
SumAll(s) == IF s = <<>> THEN 0 ELSE SumSeq(Head(s)) + SumAll(Tail(s))

Min(a, b) == IF a <= b THEN a ELSE b
Max(a, b) == IF a >= b THEN a ELSE b

Tensor(shape, val) == [shape |-> shape, val |-> val]
Scalar(v) == Tensor(<<>>, <<v>>)
NoShape == <<0>>

\* numpy/tensorflow broadcasting of two shapes; NoShape when they do not align
PadLeft(s, n) == [i \in 1..n |-> IF i <= n - Len(s) THEN 1 ELSE s[i - (n - Len(s))]]
BroadcastShape(s1, s2) ==
    LET n == Max(Len(s1), Len(s2))
        a == PadLeft(s1, n)
        b == PadLeft(s2, n)
    IN IF \A i \in 1..n : a[i] = b[i] \/ a[i] = 1 \/ b[i] = 1
       THEN [i \in 1..n |-> IF a[i] = 1 THEN b[i] ELSE a[i]]
       ELSE NoShape

\* t[:, :d1, :d2, ...]: the leading axis is kept, the next Len(limits) axes are
\* cut to at most the limit, the remaining axes are kept
CropShape(shape, limits) ==
    [i \in 1..Len(shape) |->
        IF i >= 2 /\ i - 1 <= Len(limits) THEN Min(shape[i], limits[i - 1]) ELSE shape[i]]

\* tf.tile
TileShape(shape, multiples) == [i \in 1..Len(shape) |-> shape[i] * multiples[i]]

\* tf.reshape: possible exactly when the number of elements is kept
CanReshape(shape, newshape) == Prod(shape) = Prod(newshape)

----------------------------------------------------------------------------
\* Numeric stand-ins.

Softplus(x) == IF x <= 0 THEN 1 ELSE x + 1
Clip(x, lo, hi) == IF x < lo THEN lo ELSE IF x > hi THEN hi ELSE x
Sigmoid(x) == IF x <= -ClipBound THEN 0 ELSE IF x >= ClipBound THEN 100 ELSE 50 + 5 * x
ClipSigmoid(x) == Sigmoid(Clip(x, -ClipBound, ClipBound))

\* tf.random_normal: the draw for element i under a seed
Noise(seed, i) == ((seed + i) % 3) - 1

\* the scheduled prior (attr_prior_mean, attr_prior_std)
prior == [mean |-> 0, std |-> 1]

\* tf.split(x, 2, axis=-1) of one vector
SplitLo(v) == SubSeq(v, 1, Len(v) \div 2)
SplitHi(v) == SubSeq(v, (Len(v) \div 2) + 1, Len(v))

\* normal_vae over a sequence of vectors: sample = mean + std * noise, and the
\* element-wise divergence to the prior (a non-negative stand-in)
NormalSample(mean, std, seed) ==
    [t \in 1..Len(mean) |->
        [i \in 1..Len(mean[t]) |->
            mean[t][i] + std[t][i] * Noise(seed, (t - 1) * Len(mean[t]) + i)]]
NormalKL(mean, std) ==
    [t \in 1..Len(mean) |->
        [i \in 1..Len(mean[t]) |->
            (mean[t][i] - prior.mean) * (mean[t][i] - prior.mean)
            + (std[t][i] - prior.std) * (std[t][i] - prior.std)]]
normal_vae(mean, std, seed) ==
    [sample |-> NormalSample(mean, std, seed), kl |-> NormalKL(mean, std)]

\* tf_mean_sum: sum over the non-batch axes, mean over the batch (of one)
tf_mean_sum(val) == Scalar(SumAll(val))

\* xent_loss per frame, on the 0..100 scale of Sigmoid
xent_loss(pred, label) ==
    [t \in 1..Len(pred) |-> <<IF label[t] = 1 THEN 100 - pred[t] ELSE pred[t]>>]

----------------------------------------------------------------------------
\* The pluggable sub-networks, as fixed deterministic functions.

\* encoder: one frame to a vector of n distribution parameters
EncoderNet(frame, n) == [i \in 1..n |-> (3 * frame + i) % 4]

\* cell: one step of the recurrent cell, from a state and one frame's encoding
zero_state == 0
CellStep(state, x) ==
    LET s == (2 * state + SumSeq(x) + 1) % 5
    IN [state |-> s, out |-> [i \in 1..(2 * A) |-> ((s + i) % 4) - 2]]

\* decoder: one frame's latent vector to that frame's pre-activation intensity
DecoderNet(latent) == 4 * SumSeq(latent) - 3

\* background encoder: the whole input to a vector of n parameters
BgEncoderNet(frames, n) == [i \in 1..n |-> ((SumSeq(frames) + i) % 5) - 2]

\* background decoder: pre-activation values and native output shape
BgDecoderVal(latent) == [c \in 1..3 |-> 6 * SumSeq(latent) + c - 8]
BgDecoderShape(kind, target) ==
    CASE kind = "solid" -> <<1, 3>>
      [] kind = "map_exact" -> <<1>> \o target
      [] OTHER -> <<1>> \o [i \in 1..Len(target) |->
                               IF i < Len(target) THEN target[i] + 1 ELSE target[i]]

Reverse(s) == [i \in 1..Len(s) |-> s[Len(s) + 1 - i]]
RECURSIVE RnnOutputs(_, _)
RnnOutputs(inputs, state) ==
    IF inputs = <<>> THEN <<>>
    ELSE <<CellStep(state, Head(inputs)).out>>
         \o RnnOutputs(Tail(inputs), CellStep(state, Head(inputs)).state)
dynamic_rnn_backward(inputs, state) ==
    [outputs |-> Reverse(RnnOutputs(Reverse(inputs), state)), state |-> state]

\* dynamic_rnn(cell, inputs, initial_state, time_major=False): the cell is
\* stepped over the sequence in time order
RECURSIVE dynamic_rnn(_, _)
dynamic_rnn(inputs, state) ==
    IF inputs = <<>>
    THEN [outputs |-> <<>>, state |-> state]
    ELSE LET step == CellStep(state, Head(inputs))
             rest == dynamic_rnn(Tail(inputs), step.state)
         IN [outputs |-> <<step.out>> \o rest.outputs, state |-> rest.state]

----------------------------------------------------------------------------
\* The instance during one operation: the fields the operation assigns, the
\* exception that ended it (err) and the steps it took (trace).

InList(x, list) == \E i \in 1..Len(list) : list[i] = x

Raise(m, e) == [m EXCEPT !.err = e, !.trace = Append(@, <<"raise", e>>)]
Step(m, kind, name) == [m EXCEPT !.trace = Append(@, <<kind, name>>)]
SetTensor(m, k, t) == [m EXCEPT !.tensors = Update(@, k, t)]

NeedsBuild_always(m, role) == TRUE

\* `if self.<role> is None:`
NeedsBuild(m, role) == ~Has(m.modules, role)

\* the lazy construction of one sub-module, with its optional weight freezing
BuildModule(m, role) ==
    IF NeedsBuild(m, role)
    THEN [m EXCEPT
            !.modules = Update(@, role,
                               [id |-> Cardinality(DOMAIN @) + 1,
                                fixed |-> InList(role, fixed_weights)]),
            !.builds = [@ EXCEPT ![role] = @ + 1],
            !.trace = Append(@, <<"build", role>>)]
    ELSE m

ZeroIfNotNoisy_never(std) == std

\* `if not self.noisy: std = tf.zeros_like(std)`
ZeroIfNotNoisy(std) ==
    IF ~noisy THEN [t \in 1..Len(std) |-> [i \in 1..Len(std[t]) |-> 0]] ELSE std

SoftplusAll(x) == [t \in 1..Len(x) |-> [i \in 1..Len(x[t]) |-> Softplus(x[t][i])]]

----------------------------------------------------------------------------
\* VideoNetwork.build_background

\* mode `colour`: rgb[None, None, None, :] * tf.ones_like(self.inp), for the
\* configured colour "red"
BackgroundColour(m) ==
    LET shape == BroadcastShape(<<1, 1, 1, 3>>, m.tensors["inp"].shape)
    IN IF shape = NoShape
       THEN Raise(m, "ValueError:broadcast")
       ELSE SetTensor(m, "background", Tensor(shape, <<100, 0, 0>>))

\* mode `learn_solid`: sigmoid(10 * logits) of the variable, initially zeros
BackgroundLearnSolid(m) ==
    LET m1 == IF InList("background", fixed_weights)
              THEN Step(m, "fix", "solid_background") ELSE m
        shape == BroadcastShape(<<1, 1, 1, 3>>, m.tensors["inp"].shape)
        solid == [c \in 1..3 |-> Sigmoid(10 * 0)]
    IN IF shape = NoShape
       THEN Raise(m1, "ValueError:broadcast")
       ELSE SetTensor(m1, "background", Tensor(shape, solid))

\* the decoded background of mode `learn`: a solid colour is tiled, a map cropped
DecodeBackground(inp, latent) ==
    LET native == BgDecoderShape(bg_decoder_kind, Tail(inp.shape))
        logits == BgDecoderVal(latent)
        val == [c \in 1..3 |-> ClipSigmoid(logits[c])]
    IN IF Len(native) = 2
       THEN Tensor(TileShape(<<native[1], 1, 1, native[2]>>,
                             <<1, inp.shape[2], inp.shape[3], 1>>), val)
       ELSE Tensor(CropShape(native, <<inp.shape[2], inp.shape[3]>>), val)

\* mode `learn`: encode the input, sample the latent, decode
BackgroundLearn(m, seed) ==
    LET m1 == BuildModule(BuildModule(m, "background_encoder"), "background_decoder")
        inp == m.tensors["inp"]
        bg_attr == BgEncoderNet(inp.val, 2 * A)
        bg_attr_mean == <<SplitLo(bg_attr)>>
        bg_attr_std == ZeroIfNotNoisy(SoftplusAll(<<SplitHi(bg_attr)>>))
        nv == normal_vae(bg_attr_mean, bg_attr_std, seed + 1)
        m2 == [m1 EXCEPT !.tensors =
                 ("bg_attr_mean" :> Tensor(<<1, A>>, bg_attr_mean)
                  @@ "bg_attr_std" :> Tensor(<<1, A>>, bg_attr_std)
                  @@ "bg_attr_kl" :> Tensor(<<1, A>>, nv.kl)
                  @@ "bg_attr" :> Tensor(<<1, A>>, nv.sample)) @@ @]
    IN SetTensor(Step(m2, "decode", "background"), "background",
                 DecodeBackground(inp, nv.sample[1]))

BackgroundData_sigmoid(m) ==
    IF Has(m.tensors, "background")
    THEN SetTensor(m, "background",
                   Tensor(m.tensors["background"].shape,
                          [i \in 1..Len(m.tensors["background"].val) |->
                              ClipSigmoid(m.tensors["background"].val[i])]))
    ELSE Raise(m, "KeyError:background")

\* mode `data`: self._tensors["background"]
BackgroundData(m) ==
    IF Has(m.tensors, "background")
    THEN SetTensor(m, "background", m.tensors["background"])
    ELSE Raise(m, "KeyError:background")

build_background_silent(m, seed) ==
    IF ~needs_background THEN m
    ELSE CASE bg_mode = "colour" -> BackgroundColour(m)
           [] bg_mode = "learn_solid" -> BackgroundLearnSolid(m)
           [] bg_mode = "learn" -> BackgroundLearn(m, seed)
           [] bg_mode = "data" -> BackgroundData(m)
           [] OTHER -> m

build_background(m, seed) ==
    IF ~needs_background THEN m
    ELSE CASE bg_mode = "colour" -> BackgroundColour(m)
           [] bg_mode = "learn_solid" -> BackgroundLearnSolid(m)
           [] bg_mode = "learn" -> BackgroundLearn(m, seed)
           [] bg_mode = "data" -> BackgroundData(m)
           [] OTHER -> Raise(m, "Exception:UnrecognizedBackgroundMode")

----------------------------------------------------------------------------
\* SimpleVideoVAE.build_representation

CropReconstruction_none(shape) == shape

\* reconstruction[:, :self.obs_shape[1], :self.obs_shape[2], :]
CropReconstruction(shape) == CropShape(shape, <<obs_shape[2], obs_shape[3]>>)

\* the per-frame encodings: the frames are encoded independently
Encode(frames) == [t \in 1..Len(frames) |-> EncoderNet(frames[t], 2 * A)]

\* the latent distribution of every frame: encoder, recurrent cell, split
Propagate(frames) ==
    LET attr == dynamic_rnn(Encode(frames), zero_state).outputs
    IN [mean |-> [t \in 1..Len(attr) |-> SplitLo(attr[t])],
        std |-> ZeroIfNotNoisy(SoftplusAll([t \in 1..Len(attr) |-> SplitHi(attr[t])]))]

\* the decoder's pre-activation output, then clip and sigmoid, per frame
Reconstruct(attr) == [t \in 1..Len(attr) |-> ClipSigmoid(DecoderNet(attr[t]))]

\* the losses step
BuildLosses(m, reconstruction) ==
    LET m1 == IF train_kl
              THEN [m EXCEPT !.losses =
                      Update(@, "attr_kl", tf_mean_sum(m.tensors["attr_kl"].val))]
              ELSE m
        pp == xent_loss(reconstruction, m.tensors["inp"].val)
    IN IF train_reconstruction
       THEN [m1 EXCEPT
               !.tensors = Update(@, "per_pixel_reconstruction_loss",
                                  Tensor(m.tensors["inp"].shape, pp)),
               !.losses = Update(@, "reconstruction", tf_mean_sum(pp))]
       ELSE m1

build_representation(m, seed) ==
    LET m1 == BuildModule(BuildModule(BuildModule(m, "encoder"), "cell"), "decoder")
        inp == m.tensors["inp"]
        p == Propagate(inp.val)
        nv == normal_vae(p.mean, p.std, seed)
        ashape == <<1, n_frames, A>>
        m2 == [Step(m1, "encode", "video") EXCEPT !.tensors =
                 ("attr_mean" :> Tensor(ashape, p.mean)
                  @@ "attr_std" :> Tensor(ashape, p.std)
                  @@ "attr_kl" :> Tensor(ashape, nv.kl)
                  @@ "attr" :> Tensor(ashape, nv.sample)) @@ @]
        native == <<1 * n_frames, dec_size[1], dec_size[2], image_depth>>
        cropped == CropReconstruction(native)
        reconstruction == Reconstruct(nv.sample)
        m3 == Step(m2, "decode", "video")
    IN IF ~CanReshape(inp.shape, <<1 * n_frames>> \o Tail(obs_shape))
       THEN Raise(m1, "InvalidArgumentError:reshape")
       ELSE IF ~CanReshape(cropped, <<1>> \o obs_shape)
       THEN Raise(m3, "InvalidArgumentError:reshape")
       ELSE BuildLosses(SetTensor(m3, "output", Tensor(<<1>> \o obs_shape, reconstruction)),
                        reconstruction)

----------------------------------------------------------------------------
\* VideoNetwork._call

BoolTensor(b) == Scalar(IF b THEN 1 ELSE 0)

\* the tensors a pass starts from: the input and what the batch carries
InitTensors(data, is_training) ==
    LET base == "inp" :> data["image"]
                @@ "is_training" :> BoolTensor(is_training)
                @@ "float_is_training" :> BoolTensor(is_training)
                @@ "batch_size" :> Scalar(data["image"].shape[1])
        t1 == IF Has(data, "annotations")
              THEN ("annotations" :> data["annotations"]["data"]
                    @@ "n_annotations" :> data["annotations"]["shapes"]
                    @@ "n_valid_annotations" :> data["annotations"]["mask"]) @@ base
              ELSE base
        t2 == IF Has(data, "label") THEN Update(t1, "targets", data["label"]) ELSE t1
    IN IF Has(data, "background") THEN Update(t2, "background", data["background"]) ELSE t2

StartCall_keepLosses(m, data, is_training) ==
    [m EXCEPT
       !.tensors = InitTensors(data, is_training),
       !.recorded = ("batch_size" :> Scalar(data["image"].shape[1])
                     @@ "float_is_training" :> BoolTensor(is_training)) @@ @,
       !.trace = Append(@, <<"start", "call">>)]

StartCall_keepTensors(m, data, is_training) ==
    [m EXCEPT
       !.tensors = InitTensors(data, is_training) @@ @,
       !.recorded = ("batch_size" :> Scalar(data["image"].shape[1])
                     @@ "float_is_training" :> BoolTensor(is_training)) @@ @,
       !.losses = EmptyMap,
       !.trace = Append(@, <<"start", "call">>)]

\* everything before the variable scope: a fresh tensor mapping, the recorded
\* diagnostics, a fresh loss mapping
StartCall(m, data, is_training) ==
    [m EXCEPT
       !.tensors = InitTensors(data, is_training),
       !.recorded = ("batch_size" :> Scalar(data["image"].shape[1])
                     @@ "float_is_training" :> BoolTensor(is_training)) @@ @,
       !.losses = EmptyMap,
       !.trace = Append(@, <<"start", "call">>)]

\* the pass up to its return or its exception
call(m, data, is_training, seed) ==
    LET m1 == StartCall(m, data, is_training)
        m2 == IF needs_background THEN build_background(m1, seed) ELSE m1
    IN IF m2.err = "none" THEN build_representation(m2, seed) ELSE m2

----------------------------------------------------------------------------
\* SimpleVideoVAE.__init__

ScheduledNames == <<"attr_prior_mean", "attr_prior_std", "reconstruction_weight", "kl_weight">>

\* the steps of the constructor, in order, up to its return or its exception
InitTrace ==
    <<<<"init", "VideoNetwork">>>>
    \o [i \in 1..Len(ScheduledNames) |-> <<"scheduled", ScheduledNames[i]>>]
    \o (IF ~noisy /\ train_kl THEN <<<<"raise", "Exception:noisy_train_kl">>>> ELSE <<>>)

----------------------------------------------------------------------------
\* Inputs.

Videos ==
    {Tensor(<<1>> \o obs_shape, v) : v \in [1..n_frames -> Pixels]}

Extras ==
    "annotations" :> [data |-> Scalar(1), shapes |-> Scalar(1), mask |-> Scalar(1)]
    @@ "label" :> Scalar(1)

SuppliedBackground(x) == "background" :> Tensor(<<1>> \o obs_shape, <<x>>)
BgOptions == {EmptyMap, SuppliedBackground(3)}

\* the arguments of one call: a training batch with or without a background,
\* and an evaluation batch that carries another background, annotations and
\* a label
Inputs ==
    {[data |-> ("image" :> v) @@ b, is_training |-> TRUE, seed |-> s] :
        v \in Videos, b \in BgOptions, s \in Seeds}
    \cup {[data |-> ("image" :> Tensor(<<1>> \o obs_shape, [t \in 1..n_frames |-> 0]))
                    @@ SuppliedBackground(4) @@ Extras,
           is_training |-> FALSE, seed |-> 0]}

FixedChoice == <<"encoder", "background_decoder", "background">>
DecExact == <<image_height, image_width>>
DecSizes == {DecExact,
             <<image_height - 1, image_width>>, <<image_height, image_width - 1>>,
             <<image_height + 1, image_width>>, <<image_height + 1, image_width + 1>>}

----------------------------------------------------------------------------
\* The state machine.

\* what is remembered of the calls made so far: how the last one ended, the
\* background its batch supplied (a sequence of none or one tensor), and the
\* loss keys that earlier calls left
NoResult == [status |-> "none", err |-> "none", given |-> <<>>, earlier_losses |-> {}]

\* a SimpleVideoVAE as the class defines it: needs_background is False
InitPlain ==
    /\ needs_background = FALSE
    /\ \/ bg_mode = "checkerboard" /\ dec_size \in DecSizes
       \/ bg_mode = "data" /\ dec_size = DecExact
    /\ image_depth = 3
    /\ bg_decoder_kind = "map_exact"

\* a subclass that turns the background on (and trains the reconstruction)
InitWithBackground ==
    /\ needs_background = TRUE
    /\ train_reconstruction
    /\ bg_mode \in Modes
    /\ image_depth \in (IF bg_mode = "colour" THEN {1, 3} ELSE {3})
    /\ bg_decoder_kind \in (IF bg_mode = "learn" THEN BgDecoderKinds ELSE {"map_exact"})
    /\ dec_size \in (IF bg_mode = "data"
                     THEN {DecExact, <<image_height - 1, image_width>>}
                     ELSE {DecExact})

Init ==
    /\ noisy \in BOOLEAN
    /\ train_kl \in BOOLEAN
    /\ train_reconstruction \in BOOLEAN
    /\ fixed_weights = FixedChoice
    /\ (InitPlain \/ InitWithBackground)
    /\ phase = "new"
    /\ scheduled = {}
    /\ modules = EmptyMap
    /\ builds = [r \in Roles |-> 0]
    /\ tensors = EmptyMap
    /\ recorded_tensors = EmptyMap
    /\ losses = EmptyMap
    /\ result = NoResult
    /\ trace = <<>>

Construct ==
    /\ phase = "new"
    /\ phase' = IF ~noisy /\ train_kl THEN "failed" ELSE "ready"
    /\ scheduled' = {ScheduledNames[i] : i \in 1..Len(ScheduledNames)}
    /\ trace' = InitTrace
    /\ UNCHANGED <<cfgvars, modules, builds, tensors, recorded_tensors, losses, result>>

\* the instance as an operation finds it
Instance ==
    [tensors |-> tensors, recorded |-> recorded_tensors, losses |-> losses,
     modules |-> modules, builds |-> builds, err |-> "none", trace |-> <<>>]

Call ==
    /\ phase = "ready"
    /\ \E in \in Inputs :
         \E r \in {call(Instance, in.data, in.is_training, in.seed)} :
            /\ tensors' = r.tensors
            /\ recorded_tensors' = r.recorded
            /\ losses' = r.losses
            /\ modules' = r.modules
            /\ builds' = r.builds
            /\ trace' = r.trace
            /\ result' = [status |-> IF r.err = "none" THEN "returned" ELSE "raised",
                          err |-> r.err,
                          given |-> IF Has(in.data, "background")
                                    THEN <<in.data["background"]>> ELSE <<>>,
                          earlier_losses |-> result.earlier_losses \cup DOMAIN losses]
    /\ UNCHANGED <<cfgvars, phase, scheduled>>

Next == Construct \/ Call

Spec == Init /\ [][Next]_vars

----------------------------------------------------------------------------
\* Properties.

Called == result.status # "none"
Returned == result.status = "returned"
Raised == result.status = "raised"
BackgroundErrors == {"ValueError:broadcast", "KeyError:background",
                     "Exception:UnrecognizedBackgroundMode"}
\* the pass got as far as build_representation
ReachedRepresentation == Called /\ result.err \notin BackgroundErrors
Prefix(s, t) == SubSeq(s, 1, t)
Agree(v1, v2, t) == \A i \in 1..t : v1[i] = v2[i]

\* C1: constructing with noisy=False and train_kl=True raises, and nothing (no
\* scheduled value, no sub-module, no step of a pass) is built before the
\* error; every other combination constructs.
C1_RejectedBeforeAnythingIsBuilt ==
    phase # "new" =>
        /\ (phase = "failed") <=> (~noisy /\ train_kl)
        /\ phase = "failed" =>
             /\ scheduled = {}
             /\ modules = EmptyMap
             /\ tensors = EmptyMap

\* C2: after every forward pass the loss mapping holds 'attr_kl' only if
\* train_kl and 'reconstruction' only if train_reconstruction, it is empty
\* when both are off, and it holds nothing that this pass did not put there:
\* a pass that raises leaves it empty whatever earlier passes returned.
C2_LossKeys ==
    Called =>
        /\ DOMAIN losses \subseteq {"attr_kl", "reconstruction"}
        /\ Has(losses, "attr_kl") => train_kl
        /\ Has(losses, "reconstruction") => train_reconstruction
        /\ (~train_kl /\ ~train_reconstruction) => losses = EmptyMap
        /\ Raised => losses = EmptyMap

C2_Witness ==
    /\ Raised
    /\ result.earlier_losses = {"attr_kl", "reconstruction"}
    /\ losses = EmptyMap

\* C3 as stated: with an unrecognized background mode every forward pass of
\* every instance fails.
C3_UnrecognizedModeAlwaysFails ==
    (Called /\ bg_mode \notin RecognizedModes) => Raised

\* C3 as amended: with an unrecognized background mode every forward pass of
\* an instance whose needs_background is True fails with the mode's error,
\* right after the pass's set-up: no background is derived and no
\* reconstruction is recorded.
C3_UnrecognizedModeFailsWhenBackgroundNeeded ==
    (Called /\ bg_mode \notin RecognizedModes /\ needs_background) =>
        /\ Raised
        /\ result.err = "Exception:UnrecognizedBackgroundMode"
        /\ trace = <<<<"start", "call">>, <<"raise", "Exception:UnrecognizedBackgroundMode">>>>
        /\ Has(tensors, "background") => result.given = <<tensors["background"]>>
        /\ ~Has(tensors, "output")

C3_Witness ==
    /\ needs_background
    /\ bg_mode = "checkerboard"
    /\ Raised
    /\ result.earlier_losses # {} \/ result.given # <<>>

\* C4: in mode `data` the tensor recorded as 'background' after a pass is the
\* tensor the batch supplied, unchanged.
C4_DataBackgroundIsIdentity ==
    (Called /\ bg_mode = "data" /\ result.given # <<>>) =>
        /\ Has(tensors, "background")
        /\ tensors["background"] = result.given[1]

C4_Witness ==
    /\ needs_background
    /\ bg_mode = "data"
    /\ Returned
    /\ result.given # <<>>
    /\ tensors["background"].val = <<4>>

\* C5 as stated: whatever the decoder's native size, the pass records an
\* 'output' of the input's shape.
C5_OutputShapeForAnyDecoderSize ==
    ReachedRepresentation =>
        /\ Has(tensors, "output")
        /\ tensors["output"].shape = tensors["inp"].shape

\* C5 as amended: when the decoder's native size is at least the input's in
\* both height and width, the 'output' has the input's shape; when it is
\* smaller in either, the pass fails at the reshape and records no 'output'.
C5_OutputShapeWhenDecoderLargeEnough ==
    ReachedRepresentation =>
        IF dec_size[1] >= image_height /\ dec_size[2] >= image_width
        THEN /\ Returned
             /\ Has(tensors, "output")
             /\ tensors["output"].shape = tensors["inp"].shape
        ELSE /\ Raised
             /\ result.err = "InvalidArgumentError:reshape"
             /\ ~Has(tensors, "output")

C5_Witness ==
    /\ Returned
    /\ dec_size[1] > image_height
    /\ dec_size[2] > image_width
    /\ tensors["output"].shape = <<1, n_frames, image_height, image_width, image_depth>>

\* what build_representation derives from the frames of a video under a noise
Represent(frames, seed) ==
    LET p == Propagate(frames)
        sample == normal_vae(p.mean, p.std, seed).sample
    IN [mean |-> p.mean, std |-> p.std, attr |-> sample, output |-> Reconstruct(sample)]
RecordedPrefix(r, t) ==
    /\ Prefix(r.mean, t) = Prefix(tensors["attr_mean"].val, t)
    /\ Prefix(r.std, t) = Prefix(tensors["attr_std"].val, t)
    /\ Prefix(r.attr, t) = Prefix(tensors["attr"].val, t)
    /\ Prefix(r.output, t) = Prefix(tensors["output"].val, t)

\* C6: causality.  For the noise of the pass, any video that agrees with the
\* input on frames 1..t gives the same propagator outputs, latent samples and
\* reconstruction on frames 1..t as the pass recorded.
C6_Causality ==
    Returned =>
        \E seed \in Seeds :
            \A v \in Videos :
                \A r \in {Represent(v.val, seed)} :
                    \A t \in 0..n_frames :
                        Agree(v.val, tensors["inp"].val, t) => RecordedPrefix(r, t)

\* a pass whose input has a sibling that agrees on the first frame only, and
\* whose later frames do change the propagator's output
C6_Witness ==
    /\ Returned
    /\ noisy
    /\ \E v \in Videos :
          /\ Agree(v.val, tensors["inp"].val, 1)
          /\ v.val # tensors["inp"].val
          /\ Propagate(v.val).mean # tensors["attr_mean"].val
          /\ Prefix(Propagate(v.val).mean, 1) = Prefix(tensors["attr_mean"].val, 1)

AllZero(val) == \A t \in 1..Len(val) : \A i \in 1..Len(val[t]) : val[t][i] = 0

\* C7: when noisy is False the recorded std is zero everywhere and the
\* recorded sample equals the recorded mean, for the video latent and for the
\* background latent of mode `learn`.
C7_NoNoiseSampleIsMean ==
    ~noisy =>
        /\ Has(tensors, "attr") =>
             /\ AllZero(tensors["attr_std"].val)
             /\ tensors["attr"].val = tensors["attr_mean"].val
        /\ Has(tensors, "bg_attr") =>
             /\ AllZero(tensors["bg_attr_std"].val)
             /\ tensors["bg_attr"].val = tensors["bg_attr_mean"].val

C7_Witness ==
    /\ ~noisy
    /\ Returned
    /\ Has(tensors, "bg_attr")
    /\ tensors["attr"].val = tensors["attr_mean"].val
    /\ ~AllZero(tensors["attr_mean"].val)

\* C8 as stated: in every recognized mode the recorded 'background' has the
\* shape of the input video.
C8_BackgroundHasInputShape ==
    (Called /\ needs_background /\ bg_mode \in RecognizedModes /\ Has(tensors, "background")) =>
        tensors["background"].shape = tensors["inp"].shape

\* C9: every role's factory is invoked at most once, on the first pass that
\* needs it; a module once built is the module of every later pass; and the
\* module is frozen at its construction exactly when its role is in
\* fixed_weights.
C9_BuiltState ==
    /\ \A r \in Roles :
          /\ builds[r] <= 1
          /\ Has(modules, r) <=> builds[r] = 1
          /\ Has(modules, r) => (modules[r].fixed <=> InList(r, fixed_weights))
    /\ ReachedRepresentation => {"encoder", "cell", "decoder"} \subseteq DOMAIN modules
    /\ (Called /\ needs_background /\ bg_mode = "learn") =>
          {"background_encoder", "background_decoder"} \subseteq DOMAIN modules
    /\ ~(needs_background /\ bg_mode = "learn") =>
          DOMAIN modules \subseteq {"encoder", "cell", "decoder"}
C9_Reused ==
    \A r \in Roles : Has(modules, r) => (Has(modules', r) /\ modules'[r] = modules[r])
C9_BuiltOnceAndReused == [](C9_BuiltState) /\ [][C9_Reused]_vars

C9_Witness ==
    /\ Returned
    /\ result.earlier_losses # {}
    /\ DOMAIN modules = Roles
    /\ \A r \in Roles : builds[r] = 1
    /\ modules["encoder"].fixed
    /\ ~modules["cell"].fixed

====
